---- MODULE Spec2Model ----
(***************************************************************************)
(* Belaynish Telegram bot (src/Index.js): the conversation memory          *)
(* (Redis with fallback to an in-process NodeCache) and the unified /ai    *)
(* command handler.                                                        *)
(*                                                                         *)
(* A JavaScript string is modelled as a sequence of tokens, so that        *)
(* concatenation is \o, the empty string is <<>> and "contains" is a       *)
(* sub-sequence test.  JavaScript null is the value Null.                  *)
(***************************************************************************)
EXTENDS Integers, Sequences, FiniteSets, TLC

VARIABLES
    env,         \* process.env: which providers are configured
    redis,       \* the ioredis client, or "null"
    usingRedis,  \* module-level flag
    redisStore,  \* the durable store: key -> [val (serialized), ttl]
    memCache,    \* the NodeCache: key -> [val (history), ttl]
    req,         \* the /ai handler invocations, one record per update
    lastSaved,   \* per user: the history of the saveMemory that completed last
    justSaved,   \* the user whose saveMemory has just returned, and the update
                 \* whose getMemory was called next and has not returned yet
    failedFor    \* the users whose requests had a durable-store operation fail

vars ==
    <<env, redis, usingRedis, redisStore, memCache, req, lastSaved, justSaved,
      failedFor>>

(* ------------------------------ bounds -------------------------------- *)

\* number of /ai updates handled in one run
MaxReq == 2

Req == 1 .. MaxReq

\* ctx.from.id of the senders
Users == {"A", "B"}

(* ------------------------------ strings ------------------------------- *)

Null == <<"<null>">>

Truthy(v) == v # Null /\ v # <<>>

X == <<"X">>

Y == <<"Y">>

\* the texts an upstream response may carry in one field ("" included)
Texts == {<<>>, X}

\* the prompt of the k-th update
PromptOf(r) == <<"p" \o ToString(r)>>

Contains(s, sub) ==
    \E i \in 0 .. (Len(s) - Len(sub)) : SubSeq(s, i + 1, i + Len(sub)) = sub

(* ------------------------------ memory -------------------------------- *)
(* An entry of either store carries the seconds it has left to live        *)
(* (ttl); a key that is absent or has expired is the entry Absent.         *)

\* line 31, with MEMORY_TTL_SECONDS=2 in the environment
MEMORY_TTL == 2

Key(chatId) == <<"memory:", chatId>>

Keys == {Key(u) : u \in Users}

Absent == [val |-> <<>>, ttl |-> 0]

Turn(role, content) == [role |-> role, content |-> content]

RECURSIVE Flat(_)
Flat(h) ==
    IF h = <<>> THEN <<>>
    ELSE <<h[1].role, h[1].content>> \o Flat(Tail(h))

JSONstringify(h) == <<"[">> \o Flat(h) \o <<"]">>

JSONparse(s) ==
    LET body == SubSeq(s, 2, Len(s) - 1)
    IN  [i \in 1 .. (Len(body) \div 2) |->
            [role |-> body[2 * i - 1], content |-> body[2 * i]]]

\* JSON.parse(s) is an array
isArrayJson(s) == s # <<>> /\ s[1] = "["

\* redis.get(key): the value, or null when the key is absent or expired
RedisGet(key) ==
    IF redisStore[key].ttl > 0 THEN redisStore[key].val ELSE Null

\* redis.set(key, value, 'EX', MEMORY_TTL)
RedisSet(key, value) ==
    [redisStore EXCEPT ![key] = [val |-> value, ttl |-> MEMORY_TTL]]

\* memCache.get(key) || []
MemCacheGet(key) ==
    IF memCache[key].ttl > 0 THEN memCache[key].val ELSE <<>>

\* memCache.set with a time-to-live one second too long
MemCacheSet_LongTtl(key, history) ==
    [memCache EXCEPT ![key] = [val |-> history, ttl |-> MEMORY_TTL + 1]]

\* memCache.set(key, history), with stdTTL: MEMORY_TTL
MemCacheSet(key, history) ==
    [memCache EXCEPT ![key] = [val |-> history, ttl |-> MEMORY_TTL]]

\* one second passes over a store: every entry is a second nearer its expiry
Expire(store) ==
    [k \in Keys |->
        IF store[k].ttl <= 1 THEN Absent ELSE [store[k] EXCEPT !.ttl = @ - 1]]

(* ------------------------------ utilities ----------------------------- *)

withPrefix(text) == <<"Belaynish", "\n\n">> \o text

\* safeFirst(arr): arr[0], or null for an empty or missing array
safeFirst(arr) == IF arr # <<>> THEN arr[1] ELSE Null

(* --------------------------- provider adapters ------------------------ *)

\* what an adapter call ends in: a returned value, or a thrown error
Returned(v) == [threw |-> FALSE, value |-> v]

Threw == [threw |-> TRUE, value |-> Null]

\* the HTTP responses of a Space URL: an error, or a body with the fields
\* data (an array) and generated_text, either of which may be missing (empty)
SpaceResps ==
    {[err |-> TRUE, data |-> <<>>, generated_text |-> <<>>]}
    \cup [err : {FALSE}, data : {<<>>, << <<>> >>, <<X>>}, generated_text : Texts]

\* one pass of the loop body of callHfSpace over one URL
SpaceTry(r) ==
    IF r.err THEN Threw
    ELSE IF r.data # <<>> THEN Returned(r.data[1])
    ELSE IF Truthy(r.generated_text) THEN Returned(r.generated_text)
    ELSE Threw

\* callHfSpace: the three URLs in order, the first that yields a value
callHfSpace(resps) ==
    IF ~SpaceTry(resps[1]).threw THEN SpaceTry(resps[1])
    ELSE IF ~SpaceTry(resps[2]).threw THEN SpaceTry(resps[2])
    ELSE IF ~SpaceTry(resps[3]).threw THEN SpaceTry(resps[3])
    ELSE Threw

\* the responses of the HF Inference API: an error, or a body of one shape
HfShapes == {"string", "array", "generated_text", "data", "other"}

HfApiResps ==
    {[err |-> TRUE, shape |-> "other", text |-> <<>>]}
    \cup [err : {FALSE}, shape : HfShapes, text : Texts]

\* JSON.stringify(r.data).slice(0, 4000)
RawJson(r) == <<"{json}">>

callHfApi(r) ==
    IF r.err THEN Threw
    ELSE IF r.shape = "string" THEN Returned(r.text)
    ELSE IF r.shape \in {"array", "generated_text", "data"} /\ Truthy(r.text)
         THEN Returned(r.text)
    ELSE Returned(RawJson(r))

\* the responses of Replicate: an error, or a prediction with output, status
ReplicateResps ==
    {[err |-> TRUE, output |-> <<>>, status |-> <<>>]}
    \cup [err : {FALSE}, output : {<<>>, << <<>> >>, <<X>>, <<X, Y>>},
          status : {<<>>, <<"starting">>}]

\* callReplicate: r.data of the prediction, or a thrown error
callReplicate(r) == [threw |-> r.err, value |-> r]

\* the responses of the Wikipedia summary endpoint
WikiResps ==
    {[err |-> TRUE, extract |-> <<>>]} \cup [err : {FALSE}, extract : Texts]

wikiSummary(r) ==
    IF r.err THEN <<"Wikipedia lookup failed">>
    ELSE IF Truthy(r.extract) THEN r.extract
    ELSE <<"No summary found">>

\* the responses of the DuckDuckGo endpoint
DuckResps ==
    {[err |-> TRUE, AbstractText |-> <<>>, RelatedTopics |-> <<>>]}
    \cup [err : {FALSE}, AbstractText : {<<>>, Y},
          RelatedTopics : {<<>>, << <<>> >>, <<Y>>}]

duckDuck(r) ==
    IF r.err THEN <<"DuckDuckGo lookup failed">>
    ELSE IF Truthy(r.AbstractText) THEN r.AbstractText
    ELSE IF Truthy(safeFirst(r.RelatedTopics)) THEN safeFirst(r.RelatedTopics)
    ELSE <<"No DuckDuckGo instant answer">>

(* ------------------------------ environment --------------------------- *)

\* the configuration values the chat branch tests for presence;
\* REPLICATE_CHAT_MODEL stands for process.env[repKeyName], and HF_URL is the
\* one model URL set (MODEL_<KEY>, MODEL and HF_MODEL are left unset)
EnvVars ==
    {"HF_SPACE_URL", "HF_URL", "HUGGINGFACE_API_KEY", "REPLICATE_API_KEY",
     "REPLICATE_CHAT_MODEL"}

Envs == SUBSET EnvVars

\* the keys of the object literal of lines 207-215
ModelKeys == {"llama2", "mistral", "flan_t5", "falcon", "gpt2", "bloom", "default"}

\* HF_MODEL_MAP[k] is a URL: the key is one of the literal and its value is set
HF_MODEL_MAP(k) == k \in ModelKeys /\ "HF_URL" \in env

\* hfModelUrl && process.env.HUGGINGFACE_API_KEY, lines 287-288
HfApiConfigured(modelKey) ==
    /\ HF_MODEL_MAP(modelKey) \/ HF_MODEL_MAP("default")
    /\ "HUGGINGFACE_API_KEY" \in env

(* --------------------------- the chat resolver ------------------------ *)
(* The state of one resolution: the answer so far, the adapter calls made   *)
(* so far, each with how it ended and the text it yielded, and the input   *)
(* each call was given.                                                    *)

\* mem.map((m) => `${m.role}: ${m.content}`).join('\n'), line 274
RECURSIVE contextStr(_)
contextStr(mem) ==
    IF mem = <<>> THEN <<>>
    ELSE <<mem[1].role, ": ">> \o mem[1].content
         \o (IF Len(mem) > 1 THEN <<"\n">> \o contextStr(Tail(mem)) ELSE <<>>)

\* the argument of the call: lines 280, 290, 309, 321, 322
InputOf(st, name) ==
    IF name \in {"callHfSpace", "callHfApi"} THEN contextStr(st.mem) ELSE st.prompt

\* the state a resolution starts in, for the update rq
Unresolved(rq) ==
    [answer |-> Null, calls |-> <<>>, inputs |-> <<>>, mem |-> rq.mem,
     prompt |-> rq.prompt, modelKey |-> rq.modelKey]

Called(st, name, threw, text) ==
    [st EXCEPT !.calls = Append(@, [name |-> name, threw |-> threw, text |-> text]),
               !.inputs = Append(@, InputOf(st, name))]

\* lines 276-284
TryHfSpace(st, res) ==
    IF "HF_SPACE_URL" \in env
    THEN [Called(st, "callHfSpace", res.threw, res.value) EXCEPT
             !.answer = IF res.threw THEN st.answer ELSE res.value]
    ELSE st

\* the HF API step without its "if (!answer)" guard
TryHfApi_Unguarded(st, res) ==
    IF HfApiConfigured(st.modelKey)
    THEN [Called(st, "callHfApi", res.threw, res.value) EXCEPT
             !.answer = IF res.threw THEN st.answer ELSE res.value]
    ELSE st

\* the HF API step that takes a serialized payload for no answer
TryHfApi_RejectRaw(st, res) ==
    IF ~Truthy(st.answer) /\ HfApiConfigured(st.modelKey)
    THEN [Called(st, "callHfApi", res.threw, res.value) EXCEPT
             !.answer = IF res.threw \/ res.value = <<"{json}">>
                        THEN st.answer ELSE res.value]
    ELSE st

\* lines 285-295
TryHfApi(st, res) ==
    IF ~Truthy(st.answer) /\ HfApiConfigured(st.modelKey)
    THEN [Called(st, "callHfApi", res.threw, res.value) EXCEPT
             !.answer = IF res.threw THEN st.answer ELSE res.value]
    ELSE st

\* String(r.output[0]) when the prediction has output, line 311
OutputText(res) ==
    IF ~res.threw /\ res.value.output # <<>> THEN res.value.output[1] ELSE Null

\* lines 296-317
TryReplicate(st, res) ==
    IF ~Truthy(st.answer) /\ "REPLICATE_API_KEY" \in env
       /\ "REPLICATE_CHAT_MODEL" \in env
    THEN [Called(st, "callReplicate", res.threw, OutputText(res)) EXCEPT
             !.answer =
                 IF res.threw THEN st.answer
                 ELSE IF res.value.output # <<>> THEN OutputText(res)
                 ELSE IF Truthy(res.value.status)
                      THEN <<"Started replicate job (status ">>
                           \o res.value.status \o <<"). Check dashboard.">>
                 ELSE st.answer]
    ELSE st

NoProvider == <<"No provider available to answer this question.">>

\* the web synthesis without its "if (!answer)" guard
WebSynthesis_Unguarded(st, wiki, ddg) ==
    LET a == (IF Truthy(wiki) THEN <<"From Wikipedia: ">> \o wiki ELSE <<>>)
             \o (IF Truthy(ddg) THEN <<"\n\n", "Duck: ">> \o ddg ELSE <<>>)
    IN  [Called(Called(st, "wikiSummary", FALSE, wiki), "duckDuck", FALSE, ddg)
            EXCEPT !.answer = IF Truthy(a) THEN a ELSE NoProvider]

\* the web synthesis that leaves the search answer out
WebSynthesis_NoDuck(st, wiki, ddg) ==
    IF ~Truthy(st.answer)
    THEN LET a == (IF Truthy(wiki) THEN <<"From Wikipedia: ">> \o wiki ELSE <<>>)
         IN  [Called(Called(st, "wikiSummary", FALSE, wiki), "duckDuck", FALSE, ddg)
                 EXCEPT !.answer = IF Truthy(a) THEN a ELSE NoProvider]
    ELSE st

\* lines 319-325
WebSynthesis(st, wiki, ddg) ==
    IF ~Truthy(st.answer)
    THEN LET a == (IF Truthy(wiki) THEN <<"From Wikipedia: ">> \o wiki ELSE <<>>)
                  \o (IF Truthy(ddg) THEN <<"\n\n", "Duck: ">> \o ddg ELSE <<>>)
         IN  [Called(Called(st, "wikiSummary", FALSE, wiki), "duckDuck", FALSE, ddg)
                 EXCEPT !.answer = IF Truthy(a) THEN a ELSE NoProvider]
    ELSE st

\* what each adapter can end in, over all the responses of its upstream
AllResults ==
    [space |-> {callHfSpace(resps) : resps \in [1 .. 3 -> SpaceResps]},
     hfapi |-> {callHfApi(r) : r \in HfApiResps},
     replicate |-> {callReplicate(r) : r \in ReplicateResps},
     wiki |-> {wikiSummary(r) : r \in WikiResps},
     duck |-> {duckDuck(r) : r \in DuckResps}]

\* the same with plain upstreams: HF Space fails or answers X, the other
\* text adapters fail, the lookups find X and Y
PlainResults ==
    [space |-> {Threw, Returned(X)},
     hfapi |-> {Threw},
     replicate |-> {callReplicate([err |-> TRUE, output |-> <<>>, status |-> <<>>])},
     wiki |-> {X},
     duck |-> {Y}]

\* a stage that is skipped draws a single dummy result
Only(S) == {CHOOSE x \in S : TRUE}

SpaceInputs(up) == IF "HF_SPACE_URL" \in env THEN up.space ELSE Only(up.space)

HfApiInputs(up, st) ==
    IF ~Truthy(st.answer) /\ HfApiConfigured(st.modelKey)
    THEN up.hfapi ELSE Only(up.hfapi)

ReplicateInputs(up, st) ==
    IF ~Truthy(st.answer) /\ "REPLICATE_API_KEY" \in env
       /\ "REPLICATE_CHAT_MODEL" \in env
    THEN up.replicate ELSE Only(up.replicate)

WikiInputs(up, st) == IF ~Truthy(st.answer) THEN up.wiki ELSE Only(up.wiki)

DuckInputs(up, st) == IF ~Truthy(st.answer) THEN up.duck ELSE Only(up.duck)

(* ------------------------------ the handler --------------------------- *)

NoneSaved == [user |-> "none", get |-> 0]

JustSaved(u) == [user |-> u, get |-> 0]

NoSave == [val |-> <<>>, age |-> 0, backend |-> "none"]

\* an update not yet received; read, src, overlaps are bookkeeping: the
\* history getMemory returned, the store it came from, and the updates of
\* the same user handled while this one was; parts is the command, inputs
\* what each adapter call was given, replies everything sent to the user
Idle ==
    [pc |-> "idle", user |-> "A", prompt |-> <<>>, read |-> <<>>, src |-> "none",
     mem |-> <<>>, answer |-> Null, calls |-> <<>>, reply |-> <<>>, overlaps |-> {},
     parts |-> <<>>, modelKey |-> "llama2", inputs |-> <<>>, replies |-> <<>>]

\* a history written to the durable store before this process started
Prior == <<Turn("user", <<"p0">>), Turn("assistant", X)>>

PriorEntry == [val |-> JSONstringify(Prior), ttl |-> MEMORY_TTL]

\* the state after construction, lines 31-47, under the configurations envs:
\* the durable store, when there is one, may hold the histories of an
\* earlier run
Start(envs) ==
    /\ env \in envs
    /\ redis \in {"null", "client"}
    /\ usingRedis = (redis = "client")
    /\ redisStore \in {[k \in Keys |-> Absent], [k \in Keys |-> PriorEntry]}
    /\ redis = "null" => redisStore = [k \in Keys |-> Absent]
    /\ memCache = [k \in Keys |-> Absent]
    /\ req = [r \in Req |-> Idle]
    /\ lastSaved = [u \in Users |->
                       IF redisStore[Key(u)] = Absent THEN NoSave
                       ELSE [val |-> Prior, age |-> 0, backend |-> "redis"]]
    /\ justSaved = NoneSaved
    /\ failedFor = {}

\* no provider configured, or all of them
Init == Start({{}, EnvVars})

Active(u) == {q \in Req : req[q].user = u /\ req[q].pc \notin {"idle", "done"}}

\* the handler has the update of user u with its prompt, lines 220-268
Received(r, u) ==
    [q \in Req |->
        IF q = r
        THEN [req[q] EXCEPT !.user = u, !.prompt = PromptOf(r), !.overlaps = Active(u),
                            !.parts = <<"chat">> \o PromptOf(r)]
        ELSE IF q \in Active(u) THEN [req[q] EXCEPT !.overlaps = @ \cup {r}]
        ELSE req[q]]

\* lines 271-274 once getMemory has returned history h read from src
\* getMemory without the push of the user turn (line 272)
GotMemory_NoUserTurn(rq, h, src) ==
    [rq EXCEPT !.read = h, !.src = src, !.mem = h, !.pc = "resolve"]

GotMemory(rq, h, src) ==
    [rq EXCEPT !.read = h, !.src = src,
               !.mem = Append(h, Turn("user", rq.prompt)),
               !.pc = "resolve"]

\* ctx.reply(text)
TextReply(text) == [shape |-> "text", text |-> text, media |-> Null]

\* the handler returns the reply rep
Return(rq, rep) == [rq EXCEPT !.pc = "done", !.replies = Append(@, rep)]

\* the catch of the handler that lets the error go
Caught_Escapes(rq, message) == [rq EXCEPT !.pc = "escaped"]

\* lines 451-454: the catch of the handler
Caught(rq, message) == Return(rq, TextReply(withPrefix(<<"Error: ">> \o message)))

\* line 271: getMemory is called for update r of user u, up to its await;
\* received is the updates with what r has parsed
CallGetMemory(r, u, received) ==
    IF usingRedis /\ redis # "null"
    THEN /\ req' = [received EXCEPT ![r].pc = "redis.get"]
         /\ justSaved' = IF justSaved = JustSaved(u) THEN [justSaved EXCEPT !.get = r]
                         ELSE NoneSaved
    ELSE /\ req' = [received EXCEPT ![r] = GotMemory(@, MemCacheGet(Key(u)), "local")]
         /\ justSaved' = NoneSaved

\* /ai chat <prompt> arrives: lines 220-271, and getMemory up to its await
Receive(r, u) ==
    /\ req[r].pc = "idle"
    /\ \A q \in Req : q < r => req[q].pc # "idle"
    /\ CallGetMemory(r, u, Received(r, u))
    /\ UNCHANGED <<env, redis, usingRedis, redisStore, memCache, lastSaved, failedFor>>

\* getMemory, lines 53-54: redis.get resolves; when the value is JSON but
\* no array, mem.push of line 272 throws and the catch of the handler replies
RedisGetOk(r) ==
    /\ req[r].pc = "redis.get"
    /\ LET v == RedisGet(Key(req[r].user))
       IN  IF Truthy(v) /\ ~isArrayJson(v)
           THEN req' = [req EXCEPT ![r] = Caught(@, <<"mem.push is not a function">>)]
           ELSE req' = [req EXCEPT
                           ![r] = GotMemory(@, IF Truthy(v) THEN JSONparse(v) ELSE <<>>,
                                            "redis")]
    /\ justSaved' = NoneSaved
    /\ UNCHANGED <<env, redis, usingRedis, redisStore, memCache, lastSaved, failedFor>>

\* redis.get rejects, and the flag is left as it is
RedisGetFail_Retry(r) ==
    /\ req[r].pc = "redis.get"
    /\ failedFor' = failedFor \cup {req[r].user}
    /\ req' = [req EXCEPT ![r] = GotMemory(@, MemCacheGet(Key(req[r].user)), "local")]
    /\ justSaved' = NoneSaved
    /\ UNCHANGED <<env, redis, usingRedis, redisStore, memCache, lastSaved>>

\* getMemory, lines 55-60: redis.get rejects
RedisGetFail(r) ==
    /\ req[r].pc = "redis.get"
    /\ usingRedis' = FALSE
    /\ failedFor' = failedFor \cup {req[r].user}
    /\ req' = [req EXCEPT ![r] = GotMemory(@, MemCacheGet(Key(req[r].user)), "local")]
    /\ justSaved' = NoneSaved
    /\ UNCHANGED <<env, redis, redisStore, memCache, lastSaved>>

\* the reply of the chat branch, line 329
Replied(rq) ==
    [rq EXCEPT !.pc = "done", !.reply = withPrefix(rq.answer),
               !.replies = Append(@, TextReply(withPrefix(rq.answer)))]

Saved(u, h, backend) ==
    [lastSaved EXCEPT ![u] = [val |-> h, age |-> 0, backend |-> backend]]

\* lines 276-328: the providers in turn, then saveMemory up to its await
Resolve(r, up) ==
    /\ req[r].pc = "resolve"
    /\ \E sp \in SpaceInputs(up) :
         LET s1 == TryHfSpace(Unresolved(req[r]), sp) IN
         \E hf \in HfApiInputs(up, s1) :
         LET s2 == TryHfApi(s1, hf) IN
         \E rp \in ReplicateInputs(up, s2) :
         LET s3 == TryReplicate(s2, rp) IN
         \E w \in WikiInputs(up, s3) : \E d \in DuckInputs(up, s3) :
         LET s4 == WebSynthesis(s3, w, d)
             mem == Append(req[r].mem, Turn("assistant", s4.answer))
             u == req[r].user
             got == [req[r] EXCEPT !.answer = s4.answer, !.calls = s4.calls,
                                   !.inputs = s4.inputs, !.mem = mem]
         IN  IF usingRedis /\ redis # "null"
             THEN /\ req' = [req EXCEPT ![r] = [got EXCEPT !.pc = "redis.set"]]
                  /\ justSaved' = NoneSaved
                  /\ UNCHANGED <<memCache, lastSaved>>
             ELSE /\ memCache' = MemCacheSet(Key(u), mem)
                  /\ lastSaved' = Saved(u, mem, "local")
                  /\ justSaved' = JustSaved(u)
                  /\ req' = [req EXCEPT ![r] = Replied(got)]
    /\ UNCHANGED <<env, redis, usingRedis, redisStore, failedFor>>

\* saveMemory, lines 66-67: redis.set resolves
RedisSetOk(r) ==
    /\ req[r].pc = "redis.set"
    /\ redisStore' = RedisSet(Key(req[r].user), JSONstringify(req[r].mem))
    /\ lastSaved' = Saved(req[r].user, req[r].mem, "redis")
    /\ justSaved' = JustSaved(req[r].user)
    /\ req' = [req EXCEPT ![r] = Replied(@)]
    /\ UNCHANGED <<env, redis, usingRedis, memCache, failedFor>>

\* saveMemory, lines 68-73: redis.set rejects
RedisSetFail(r) ==
    /\ req[r].pc = "redis.set"
    /\ usingRedis' = FALSE
    /\ failedFor' = failedFor \cup {req[r].user}
    /\ memCache' = MemCacheSet(Key(req[r].user), req[r].mem)
    /\ lastSaved' = Saved(req[r].user, req[r].mem, "local")
    /\ justSaved' = JustSaved(req[r].user)
    /\ req' = [req EXCEPT ![r] = Replied(@)]
    /\ UNCHANGED <<env, redis, redisStore>>

\* a second passes
Tick ==
    /\ redisStore' = Expire(redisStore)
    /\ memCache' = Expire(memCache)
    /\ lastSaved' = [u \in Users |->
                        IF lastSaved[u].backend = "none"
                           \/ lastSaved[u].age = MEMORY_TTL
                        THEN lastSaved[u]
                        ELSE [lastSaved[u] EXCEPT !.age = @ + 1]]
    /\ justSaved' = NoneSaved
    /\ UNCHANGED <<env, redis, usingRedis, req, failedFor>>

\* the whole program: every update of every user, plain upstreams
Next ==
    \/ \E r \in Req, u \in Users : Receive(r, u)
    \/ \E r \in Req : RedisGetOk(r)
    \/ \E r \in Req : RedisGetFail(r)
    \/ \E r \in Req : Resolve(r, PlainResults)
    \/ \E r \in Req : RedisSetOk(r)
    \/ \E r \in Req : RedisSetFail(r)
    \/ Tick

Spec == Init /\ [][Next]_vars

(* One update, every outcome of every upstream, every configuration.       *)

InitChat == Start(Envs)

NextChat ==
    \/ \E u \in Users : Receive(1, u)
    \/ RedisGetOk(1)
    \/ RedisGetFail(1)
    \/ Resolve(1, AllResults)
    \/ RedisSetOk(1)
    \/ RedisSetFail(1)
    \/ Tick

SpecChat == InitChat /\ [][NextChat]_vars

(* ------------------------------ the /ai command ----------------------- *)
(* The text after "/ai" is a sequence of words: parts, the result of       *)
(* text.trim().split(' ').slice(1).  Two spaces in a row give an empty     *)
(* word; join(' ') of words is the sequence itself.                        *)

Modes == {"help", "chat", "wiki", "duck", "translate", "tts", "media", "replicate"}

runwayModes == {"t2i", "t2v", "i2v", "v2v", "upscale", "act"}

\* a list of Replicate modes that lets an unknown mode through
repModes_Lax == {"flux", "fixface", "caption", "burncaption", "recon3d", "bogus"}

repModes == {"flux", "fixface", "caption", "burncaption", "recon3d"}

\* toLowerCase on the words used here
toLowerCase(w) ==
    CASE w = "Chat" -> "chat"
      [] w = "Mistral" -> "mistral"
      [] w = "T2I" -> "t2i"
      [] OTHER -> w

\* the second words tried after each mode
SecondWords(m) ==
    CASE m = "chat" -> ModelKeys \cup {"Mistral", "hi"}
      [] m = "media" -> runwayModes \cup repModes \cup {"T2I", "bogus"}
      [] m = "translate" -> {"am", "hello"}
      [] m = "replicate" -> {"REPLICATE_TTS_MODEL", "NOVAR"}
      [] OTHER -> {"hi"}

\* the commands sent: no word, a mode alone, a mode and one word, a mode
\* and two words, the first of which may be empty (a doubled space)
Commands ==
    {<<>>}
    \cup {<<m>> : m \in Modes \cup {"Chat", "bogus"}}
    \cup UNION {{<<m, w>> : w \in SecondWords(m)} : m \in Modes \cup {"bogus"}}
    \cup UNION {{<<m, w, "hi">> : w \in SecondWords(m) \cup {""}}
                   : m \in Modes \cup {"bogus"}}

\* String.prototype.trim on a sequence of words: the empty words at both
\* ends go
RECURSIVE trim(_)
trim(ws) ==
    IF ws = <<>> THEN <<>>
    ELSE IF Head(ws) = "" THEN trim(Tail(ws))
    ELSE IF ws[Len(ws)] = "" THEN trim(SubSeq(ws, 1, Len(ws) - 1))
    ELSE ws

\* parts.slice(k).join(' ')
slice(ws, k) == SubSeq(ws, k + 1, Len(ws))

\* line 227
restOf(parts) == trim(slice(parts, 1))

\* lines 261-267: the model key and the prompt of /ai chat
firstToken(parts) == IF Len(parts) > 1 THEN toLowerCase(parts[2]) ELSE ""

modelKeyOf(parts) ==
    IF HF_MODEL_MAP(firstToken(parts)) THEN firstToken(parts) ELSE "llama2"

promptOf(parts) ==
    IF HF_MODEL_MAP(firstToken(parts)) THEN slice(parts, 2) ELSE restOf(parts)

\* the length of a word, for "parts2[0].length <= 3"
length(w) ==
    CASE w = "" -> 0
      [] w \in {"am", "hi"} -> 2
      [] OTHER -> 5

\* lines 347-354: the target language and the text of /ai translate
toOf(rest) == IF Len(rest) > 1 /\ length(rest[1]) <= 3 THEN rest[1] ELSE "en"

textToTranslate(rest) ==
    IF Len(rest) > 1 /\ length(rest[1]) <= 3 THEN slice(rest, 1) ELSE rest

(* The replies: ctx.reply, replyWithPhoto, replyWithVideo,                 *)
(* replyWithDocument, replyWithVoice.  text is the text or the caption,    *)
(* Null when the call passes none.                                         *)

PhotoReply(out, caption) == [shape |-> "photo", text |-> caption, media |-> out]

VideoReply(out, caption) == [shape |-> "video", text |-> caption, media |-> out]

DocumentReply(out) == [shape |-> "document", text |-> Null, media |-> out]

VoiceReply(src) == [shape |-> "voice", text |-> Null, media |-> src]

\* the fixed texts of the handler
UsageAi == <<"Usage: /ai <mode> <input>\nModes: chat|wiki|duck|translate|media|tts|replicate">>

PleaseInput == <<"Please provide input. Example: /ai chat Explain Newton laws">>

PleasePrompt == <<"Please provide a prompt for chat.">>

HelpText == <<"/ai <mode> <input> ...">>

UsageMedia == <<"Usage: /ai media <mode> <input>. Type /ai help for modes.">>

UsageReplicate == <<"Usage: /ai replicate <env_model_variable> <prompt>">>

UnknownMode == <<"Unknown mode. Type /ai help for usage.">>

NoTts == <<"No TTS provider configured.">>

NoMediaProvider == <<"No provider configured for that media mode.">>

\* an adapter is called with input and ends in res
Call(rq, name, res, text, input) ==
    [rq EXCEPT !.calls = Append(@, [name |-> name, threw |-> res.threw, text |-> text]),
               !.inputs = Append(@, input)]

\* lines 220-268 and the tests of each branch that come before its first
\* await: the update r of user u carries the command parts
Ai(r, u, parts) ==
    /\ req[r].pc = "idle"
    /\ \A q \in Req : q < r => req[q].pc # "idle"
    /\ LET mode == IF parts = <<>> THEN "" ELSE toLowerCase(parts[1])
           rest == restOf(parts)
           got == [req[r] EXCEPT !.user = u, !.parts = parts]
           ends(text) == /\ req' = [req EXCEPT ![r] = Return(got, TextReply(withPrefix(text)))]
                         /\ justSaved' = NoneSaved
           goes(pc) == /\ req' = [req EXCEPT ![r] = [got EXCEPT !.pc = pc]]
                       /\ justSaved' = NoneSaved
       IN  IF parts = <<>> THEN ends(UsageAi)
           ELSE IF rest = <<>> /\ mode # "help" THEN ends(PleaseInput)
           ELSE IF mode = "help" THEN ends(HelpText)
           ELSE IF mode = "chat"
                THEN IF promptOf(parts) = <<>>
                     THEN /\ req' = [req EXCEPT
                                 ![r] = Return([got EXCEPT !.modelKey = modelKeyOf(parts)],
                                               TextReply(withPrefix(PleasePrompt)))]
                          /\ justSaved' = NoneSaved
                     ELSE CallGetMemory(r, u,
                              [Received(r, u) EXCEPT ![r].parts = parts,
                                                     ![r].prompt = promptOf(parts),
                                                     ![r].modelKey = modelKeyOf(parts)])
           ELSE IF mode \in {"wiki", "duck", "translate", "tts"} THEN goes(mode)
           ELSE IF mode = "media"
                THEN IF Len(parts) < 2 \/ parts[2] = "" \/ slice(parts, 2) = <<>>
                     THEN ends(UsageMedia)
                     ELSE goes("media")
           ELSE IF mode = "replicate"
                THEN IF Len(parts) < 2 \/ parts[2] = "" \/ slice(parts, 2) = <<>>
                     THEN ends(UsageReplicate)
                     ELSE IF parts[2] \notin env
                     THEN ends(<<"No replicate model found in env as ">> \o <<parts[2]>>)
                     ELSE goes("replicate")
           ELSE ends(UnknownMode)
    /\ UNCHANGED <<env, redis, usingRedis, redisStore, memCache, lastSaved, failedFor>>

\* the error message of a rejected call
message == <<"e.message">>

\* safeFirst(r.output) of a call that returned
firstOutput(res) == IF res.threw THEN Null ELSE safeFirst(res.value.output)

\* lines 333-336
Wiki(r) ==
    /\ req[r].pc = "wiki"
    /\ \E w \in AllResults.wiki :
           req' = [req EXCEPT
                      ![r] = Return(Call(@, "wikiSummary", Returned(w), w, restOf(@.parts)),
                                    TextReply(withPrefix(w)))]
    /\ justSaved' = NoneSaved
    /\ UNCHANGED <<env, redis, usingRedis, redisStore, memCache, lastSaved, failedFor>>

\* lines 339-342
Duck(r) ==
    /\ req[r].pc = "duck"
    /\ \E d \in AllResults.duck :
           req' = [req EXCEPT
                      ![r] = Return(Call(@, "duckDuck", Returned(d), d, restOf(@.parts)),
                                    TextReply(withPrefix(d)))]
    /\ justSaved' = NoneSaved
    /\ UNCHANGED <<env, redis, usingRedis, redisStore, memCache, lastSaved, failedFor>>

\* the responses of translateLib: an error (also for a language code it
\* does not know), or a result with its text
TranslateResps ==
    {[err |-> TRUE, text |-> <<>>]} \cup [err : {FALSE}, text : Texts]

\* translateUnofficial without its catch
translateUnofficial_Throws(text, to, r) ==
    IF r.err THEN Threw ELSE Returned(r.text)

\* lines 195-202
translateUnofficial(text, to, r) ==
    IF r.err THEN Returned(text) ELSE Returned(r.text)

\* lines 345-357
Translate(r) ==
    /\ req[r].pc = "translate"
    /\ \E resp \in TranslateResps :
           LET rest == restOf(req[r].parts)
               res == translateUnofficial(textToTranslate(rest), toOf(rest), resp)
               c == Call(req[r], "translateUnofficial", res, res.value,
                         textToTranslate(rest))
           IN  req' = [req EXCEPT
                          ![r] = IF res.threw THEN Caught(c, message)
                                 ELSE Return(c, TextReply(withPrefix(res.value)))]
    /\ justSaved' = NoneSaved
    /\ UNCHANGED <<env, redis, usingRedis, redisStore, memCache, lastSaved, failedFor>>

\* the responses of ElevenLabs: an error (also when ELEVENLABS_API_URL is
\* unset), or the audio
ElevenLabsResps == {[err |-> TRUE], [err |-> FALSE]}

\* lines 158-167
callElevenLabsTTS(r) == IF r.err THEN Threw ELSE Returned(<<"audio">>)

\* lines 362-369; ELEVENLABS stands for ELEVENLABS_API_KEY && ELEVENLABS_VOICE_ID
TryElevenLabs(rq, res) ==
    IF "ELEVENLABS" \in env
    THEN LET c == Call(rq, "callElevenLabsTTS", res, res.value, restOf(rq.parts))
         IN  IF res.threw THEN c ELSE Return(c, VoiceReply(res.value))
    ELSE rq

TtsReplicateConfigured ==
    "REPLICATE_API_KEY" \in env /\ "REPLICATE_TTS_MODEL" \in env

\* the Replicate step of tts that runs also after ElevenLabs has answered
TryReplicateTts_Unguarded(rq, res) ==
    IF TtsReplicateConfigured
    THEN LET c == Call(rq, "callReplicate", res, firstOutput(res), restOf(rq.parts))
         IN  IF Truthy(firstOutput(res)) THEN Return(c, VoiceReply(firstOutput(res)))
             ELSE c
    ELSE rq

\* lines 370-378, reached only when line 365 has not returned
TryReplicateTts(rq, res) ==
    IF rq.pc # "done" /\ TtsReplicateConfigured
    THEN LET c == Call(rq, "callReplicate", res, firstOutput(res), restOf(rq.parts))
         IN  IF Truthy(firstOutput(res)) THEN Return(c, VoiceReply(firstOutput(res)))
             ELSE c
    ELSE rq

ElevenLabsResults == {callElevenLabsTTS(r) : r \in ElevenLabsResps}

\* lines 360-380
Tts(r) ==
    /\ req[r].pc = "tts"
    /\ \E e \in IF "ELEVENLABS" \in env THEN ElevenLabsResults ELSE Only(ElevenLabsResults) :
         LET s1 == TryElevenLabs(req[r], e) IN
         \E rp \in IF s1.pc # "done" /\ TtsReplicateConfigured
                   THEN AllResults.replicate ELSE Only(AllResults.replicate) :
         LET s2 == TryReplicateTts(s1, rp)
         IN  req' = [req EXCEPT
                        ![r] = IF s2.pc = "done" THEN s2
                               ELSE Return(s2, TextReply(withPrefix(NoTts)))]
    /\ justSaved' = NoneSaved
    /\ UNCHANGED <<env, redis, usingRedis, redisStore, memCache, lastSaved, failedFor>>

\* the responses of Runway: an error (also when the endpoint of the mode is
\* unset), or a body with output
RunwayResps ==
    {[err |-> TRUE, output |-> <<>>]}
    \cup [err : {FALSE}, output : {<<>>, << <<>> >>, <<X>>}]

\* lines 142-153
callRunway(r) == [threw |-> r.err, value |-> r]

\* every successful media reply as a video
mediaReply_Video(sub, provider, out, payload) == VideoReply(out, withPrefix(payload))

\* lines 405-406 and 422-425: the reply for the output out of a media mode
mediaReply(sub, provider, out, payload) ==
    IF provider = "callRunway"
    THEN IF sub \in {"t2i", "flux", "fixface"} THEN PhotoReply(out, withPrefix(payload))
         ELSE VideoReply(out, withPrefix(payload))
    ELSE IF sub \in {"flux", "fixface"} THEN PhotoReply(out, withPrefix(payload))
         ELSE IF sub = "recon3d" THEN DocumentReply(out)
         ELSE IF sub = "caption" THEN TextReply(withPrefix(out))
         ELSE VideoReply(out, withPrefix(payload))

\* lines 402-406 and 419-425: the call of a media provider and the reply
mediaCall(rq, sub, provider, res, payload) ==
    LET c == Call(rq, provider, res, firstOutput(res), payload)
    IN  IF res.threw THEN Return(c, TextReply(withPrefix(<<"Media error: ">> \o message)))
        ELSE IF ~Truthy(firstOutput(res))
        THEN Return(c, TextReply(withPrefix(
                 IF provider = "callRunway" THEN <<"Runway returned no output.">>
                 ELSE <<"Replicate returned no output.">>)))
        ELSE Return(c, mediaReply(sub, provider, firstOutput(res), payload))

\* lines 383-431; REPLICATE_MEDIA_MODEL stands for the model variable of the
\* mode (REPLICATE_IMAGE_MODEL for flux, ...)
Media(r) ==
    /\ req[r].pc = "media"
    /\ LET sub == toLowerCase(req[r].parts[2])
           payload == slice(req[r].parts, 2)
       IN  IF sub \in runwayModes /\ "RUNWAY_API_KEY" \in env
           THEN \E rr \in RunwayResps :
                    req' = [req EXCEPT
                               ![r] = mediaCall(@, sub, "callRunway", callRunway(rr), payload)]
           ELSE IF sub \in repModes /\ "REPLICATE_API_KEY" \in env
           THEN IF "REPLICATE_MEDIA_MODEL" \notin env
                THEN req' = [req EXCEPT
                                ![r] = Return(@, TextReply(withPrefix(
                                           <<"Replicate model not set for this mode.">>)))]
                ELSE \E res \in AllResults.replicate :
                         req' = [req EXCEPT
                                    ![r] = mediaCall(@, sub, "callReplicate", res, payload)]
           ELSE req' = [req EXCEPT ![r] = Return(@, TextReply(withPrefix(NoMediaProvider)))]
    /\ justSaved' = NoneSaved
    /\ UNCHANGED <<env, redis, usingRedis, redisStore, memCache, lastSaved, failedFor>>

\* lines 440-446: /ai replicate <variable> <prompt>, the variable being set;
\* callReplicate throws when REPLICATE_API_KEY is missing
ReplicateDirect(r) ==
    /\ req[r].pc = "replicate"
    /\ \E res \in IF "REPLICATE_API_KEY" \in env THEN AllResults.replicate
                  ELSE {callReplicate([err |-> TRUE, output |-> <<>>, status |-> <<>>])} :
           LET out == IF Truthy(firstOutput(res)) THEN firstOutput(res)
                      ELSE RawJson(res.value)
               c == Call(req[r], "callReplicate", res, firstOutput(res),
                         slice(req[r].parts, 2))
           IN  req' = [req EXCEPT
                          ![r] = IF res.threw
                                 THEN Return(c, TextReply(withPrefix(
                                          <<"Replicate error: ">> \o message)))
                                 ELSE Return(c, TextReply(withPrefix(out)))]
    /\ justSaved' = NoneSaved
    /\ UNCHANGED <<env, redis, usingRedis, redisStore, memCache, lastSaved, failedFor>>

(* One update carrying any command.  A configuration sets the variables of *)
(* one capability (each branch reads the variables of its own capability   *)
(* only); the durable store may hold, under the keys of this program, the  *)
(* histories of an earlier run or a JSON value that is no array.           *)

TtsVars == {"ELEVENLABS", "REPLICATE_API_KEY", "REPLICATE_TTS_MODEL"}

MediaVars == {"RUNWAY_API_KEY", "REPLICATE_API_KEY", "REPLICATE_MEDIA_MODEL"}

AiEnvs == SUBSET EnvVars \cup SUBSET TtsVars \cup SUBSET MediaVars

ForeignEntry == [val |-> <<"{}">>, ttl |-> MEMORY_TTL]

InitAi ==
    /\ env \in AiEnvs
    /\ redis \in {"null", "client"}
    /\ usingRedis = (redis = "client")
    /\ redisStore \in {[k \in Keys |-> Absent], [k \in Keys |-> PriorEntry],
                       [k \in Keys |-> ForeignEntry]}
    /\ redis = "null" => redisStore = [k \in Keys |-> Absent]
    /\ memCache = [k \in Keys |-> Absent]
    /\ req = [r \in Req |-> Idle]
    /\ lastSaved = [u \in Users |->
                       IF redisStore[Key(u)] = PriorEntry
                       THEN [val |-> Prior, age |-> 0, backend |-> "redis"]
                       ELSE NoSave]
    /\ justSaved = NoneSaved
    /\ failedFor = {}

NextAi ==
    \/ \E u \in Users, parts \in Commands : Ai(1, u, parts)
    \/ RedisGetOk(1)
    \/ RedisGetFail(1)
    \/ Resolve(1, PlainResults)
    \/ RedisSetOk(1)
    \/ RedisSetFail(1)
    \/ Wiki(1)
    \/ Duck(1)
    \/ Translate(1)
    \/ Tts(1)
    \/ Media(1)
    \/ ReplicateDirect(1)

SpecAi == InitAi /\ [][NextAi]_vars

\* a step of the handler after an await: the awaited call has settled
Settles ==
    \/ RedisGetOk(1)
    \/ RedisGetFail(1)
    \/ Resolve(1, PlainResults)
    \/ RedisSetOk(1)
    \/ RedisSetFail(1)
    \/ Wiki(1)
    \/ Duck(1)
    \/ Translate(1)
    \/ Tts(1)
    \/ Media(1)
    \/ ReplicateDirect(1)

(* Every awaited call settles: the HTTP calls carry a timeout (lines 95,   *)
(* 113, 134, 150, 164, 175, 185) and reject when it passes; the store and  *)
(* the translation library resolve or reject.                              *)
SpecAiLive == InitAi /\ [][NextAi]_vars /\ WF_vars(Settles)

(* Chat requests and requests of every other mode, of any users, in any   *)
(* interleaving, over stores that start empty; the durable store may fail  *)
(* at every call, and time passes.                                         *)

\* every variable any branch reads
AllVars == EnvVars \cup TtsVars \cup MediaVars

\* one command of each mode other than chat
OtherCommands ==
    {<<"help">>, <<"wiki", "hi">>, <<"duck", "hi">>, <<"translate", "am", "hi">>,
     <<"tts", "hi">>, <<"media", "recon3d", "hi">>,
     <<"replicate", "REPLICATE_TTS_MODEL", "hi">>}

\* the upstreams of a chat request answer at the first adapter configured:
\* HF Space when its URL is set, the web lookups otherwise
MemResults == [PlainResults EXCEPT !.space = {Returned(X)}]

InitMem ==
    /\ env \in {{}, AllVars}
    /\ redis \in {"null", "client"}
    /\ usingRedis = (redis = "client")
    /\ redisStore = [k \in Keys |-> Absent]
    /\ memCache = [k \in Keys |-> Absent]
    /\ req = [r \in Req |-> Idle]
    /\ lastSaved = [u \in Users |-> NoSave]
    /\ justSaved = NoneSaved
    /\ failedFor = {}

NextMem ==
    \/ \E r \in Req, u \in Users : Receive(r, u)
    \/ \E r \in Req, u \in Users, parts \in OtherCommands : Ai(r, u, parts)
    \/ \E r \in Req : RedisGetOk(r)
    \/ \E r \in Req : RedisGetFail(r)
    \/ \E r \in Req : Resolve(r, MemResults)
    \/ \E r \in Req : RedisSetOk(r)
    \/ \E r \in Req : RedisSetFail(r)
    \/ \E r \in Req : Wiki(r)
    \/ \E r \in Req : Duck(r)
    \/ \E r \in Req : Translate(r)
    \/ \E r \in Req : Tts(r)
    \/ \E r \in Req : Media(r)
    \/ \E r \in Req : ReplicateDirect(r)
    \/ Tick

SpecMem == InitMem /\ [][NextMem]_vars

(* ------------------------------ observations -------------------------- *)

\* the resolution of update r has ended: its answer is final
Resolved(r) == req[r].pc \in {"redis.set", "done"}

CallsOf(r) == req[r].calls

Invoked(r, name) == \E i \in 1 .. Len(CallsOf(r)) : CallsOf(r)[i].name = name

\* the adapter was invoked and returned a value
Gave(r, name) ==
    \E i \in 1 .. Len(CallsOf(r)) :
        CallsOf(r)[i].name = name /\ ~CallsOf(r)[i].threw

TextAdapters == {"callHfSpace", "callHfApi", "callReplicate"}

\* the priority order of the chat providers
Rank(name) ==
    CASE name = "callHfSpace" -> 1
      [] name = "callHfApi" -> 2
      [] name = "callReplicate" -> 3
      [] name = "wikiSummary" -> 4
      [] name = "duckDuck" -> 5

LastTurn(r) == req[r].mem[Len(req[r].mem)]

\* what getMemory(u) would return now, were it to run without a failure
Stored(u) ==
    IF usingRedis /\ redis # "null"
    THEN IF Truthy(RedisGet(Key(u))) THEN JSONparse(RedisGet(Key(u))) ELSE <<>>
    ELSE MemCacheGet(Key(u))

(* ------------------------------ claims -------------------------------- *)

\* C1: the chat providers are invoked in the order HF Space, HF API,
\* Replicate, wikiSummary, duckDuck; when HF Space and HF API yield nothing
\* and Replicate returns an output text (a non-empty one), the answer, the
\* recorded assistant turn and the reply are that text, and neither
\* wikiSummary nor duckDuck is invoked.
C1_FallbackOrder ==
    \A r \in Req : Resolved(r) =>
        /\ \A i, j \in 1 .. Len(CallsOf(r)) :
               i < j => Rank(CallsOf(r)[i].name) < Rank(CallsOf(r)[j].name)
        /\ \A i \in 1 .. Len(CallsOf(r)) :
               ( /\ CallsOf(r)[i].name = "callReplicate"
                 /\ Truthy(CallsOf(r)[i].text)
                 /\ ~Gave(r, "callHfSpace")
                 /\ ~Gave(r, "callHfApi") )
               => /\ req[r].answer = CallsOf(r)[i].text
                  /\ LastTurn(r) = Turn("assistant", CallsOf(r)[i].text)
                  /\ req[r].pc = "done" => req[r].reply = withPrefix(CallsOf(r)[i].text)
                  /\ ~Invoked(r, "wikiSummary")
                  /\ ~Invoked(r, "duckDuck")

\* HF Space and HF API were both invoked and threw, Replicate answered X,
\* the reply has been sent
C1_Witness ==
    \E r \in Req :
        /\ req[r].pc = "done"
        /\ Len(CallsOf(r)) = 3
        /\ CallsOf(r)[1] = [name |-> "callHfSpace", threw |-> TRUE, text |-> Null]
        /\ CallsOf(r)[2] = [name |-> "callHfApi", threw |-> TRUE, text |-> Null]
        /\ CallsOf(r)[3] = [name |-> "callReplicate", threw |-> FALSE, text |-> X]
        /\ req[r].reply = withPrefix(X)

\* C2 as stated: a text adapter that returns a text, the empty one included,
\* is the last adapter invoked in the request.
C2_ShortCircuitAnyText ==
    \A r \in Req : Resolved(r) =>
        \A i \in 1 .. Len(CallsOf(r)) :
            ( /\ CallsOf(r)[i].name \in TextAdapters
              /\ ~CallsOf(r)[i].threw
              /\ CallsOf(r)[i].text # Null )
            => i = Len(CallsOf(r))

\* C2: a text adapter that returns a non-empty text is the last adapter
\* invoked in the request (an empty text counts as no answer).
C2_ShortCircuit ==
    \A r \in Req : Resolved(r) =>
        \A i \in 1 .. Len(CallsOf(r)) :
            ( /\ CallsOf(r)[i].name \in TextAdapters
              /\ ~CallsOf(r)[i].threw
              /\ Truthy(CallsOf(r)[i].text) )
            => i = Len(CallsOf(r))

\* every provider is configured, HF Space answered X and nothing else ran
C2_Witness ==
    \E r \in Req :
        /\ Resolved(r)
        /\ env = EnvVars
        /\ CallsOf(r) = <<[name |-> "callHfSpace", threw |-> FALSE, text |-> X]>>

WikiFailed(r) ==
    \E i \in 1 .. Len(CallsOf(r)) :
        /\ CallsOf(r)[i].name = "wikiSummary"
        /\ CallsOf(r)[i].text = <<"Wikipedia lookup failed">>

DuckFailed(r) ==
    \E i \in 1 .. Len(CallsOf(r)) :
        /\ CallsOf(r)[i].name = "duckDuck"
        /\ CallsOf(r)[i].text = <<"DuckDuckGo lookup failed">>

\* C3: when no text adapter yields an answer and both lookups fail, the
\* answer is the sentinel; the answer is never empty or null.
C3_Exhaustion ==
    \A r \in Req : Resolved(r) =>
        /\ Truthy(req[r].answer)
        /\ ( /\ \A n \in TextAdapters : ~Gave(r, n)
             /\ WikiFailed(r)
             /\ DuckFailed(r) )
           => req[r].answer = NoProvider

NoTextProviderConfigured ==
    /\ "HF_SPACE_URL" \notin env
    /\ ~HfApiConfigured("llama2")
    /\ ~("REPLICATE_API_KEY" \in env /\ "REPLICATE_CHAT_MODEL" \in env)

\* wikiSummary and duckDuck of update r both found a text: w and d
LookupsFound(r, w, d) ==
    /\ Len(CallsOf(r)) = 2
    /\ CallsOf(r)[1] = [name |-> "wikiSummary", threw |-> FALSE, text |-> w]
    /\ CallsOf(r)[2] = [name |-> "duckDuck", threw |-> FALSE, text |-> d]
    /\ w \notin {<<"Wikipedia lookup failed">>, <<"No summary found">>}
    /\ d \notin {<<"DuckDuckGo lookup failed">>, <<"No DuckDuckGo instant answer">>}

\* C8: with no text provider configured and both lookups finding a text (w
\* and d), the reply contains 'From Wikipedia: w' and 'Duck: d', and the
\* text replied (the banner apart) is the assistant turn appended to the
\* history read, and stored.
C8_FullFallback ==
    \A r \in Req : \A w \in AllResults.wiki, d \in AllResults.duck :
        (req[r].pc = "done" /\ NoTextProviderConfigured /\ LookupsFound(r, w, d)) =>
            /\ Contains(req[r].reply, <<"From Wikipedia: ">> \o w)
            /\ Contains(req[r].reply, <<"Duck: ">> \o d)
            /\ req[r].reply = withPrefix(req[r].answer)
            /\ req[r].mem = req[r].read
                   \o <<Turn("user", req[r].prompt), Turn("assistant", req[r].answer)>>
            /\ justSaved = JustSaved(req[r].user) => Stored(req[r].user) = req[r].mem

\* the lookups found X and Y after a history was read from the store, and
\* the request has just ended
C8_Witness ==
    \E r \in Req :
        /\ req[r].pc = "done"
        /\ NoTextProviderConfigured
        /\ LookupsFound(r, X, Y)
        /\ req[r].read = Prior
        /\ justSaved = JustSaved(req[r].user)

(* ------------------------------ steps ---------------------------------- *)

\* in this step getMemory of update r returns
GetDone(r) == req[r].pc \in {"idle", "redis.get"} /\ req'[r].pc = "resolve"

\* in this step saveMemory of update r returns (and the reply is sent)
SaveDone(r) == req[r].pc \in {"resolve", "redis.set"} /\ req'[r].pc = "done"

\* the store a getMemory or saveMemory that starts now would use
InUse == IF usingRedis /\ redis # "null" THEN "redis" ELSE "local"

\* the history last saved for u, as long as its time-to-live has not elapsed
LastSavedAlive(u) ==
    IF lastSaved[u].backend # "none" /\ lastSaved[u].age < MEMORY_TTL
    THEN lastSaved[u].val ELSE <<>>

\* in this step getMemory of update r returns, having been called right
\* after saveMemory of the same user returned, with no step in between
GetDoneAfterSave(r) ==
    /\ GetDone(r)
    /\ justSaved = [user |-> req'[r].user, get |-> IF req[r].pc = "idle" THEN 0 ELSE r]

\* C4: a getMemory(id) that immediately follows saveMemory(id, h) returns h,
\* whatever store is in use and whichever of the two calls runs into a
\* durable-store failure.
C4_RoundTrip ==
    [][\A r \in Req :
          GetDoneAfterSave(r)
          => req'[r].read = lastSaved[req'[r].user].val]_vars

\* what the code does keep: the round trip through one and the same store
RoundTripSameStore ==
    [][\A r \in Req :
          (GetDoneAfterSave(r) /\ req'[r].src = lastSaved[req'[r].user].backend)
          => req'[r].read = lastSaved[req'[r].user].val]_vars

\* a save that failed over to the local cache, read back by the next update
\* of the same user
RoundTripSameStore_Witness ==
    \E r, q \in Req :
        /\ r # q
        /\ req[r].user = req[q].user
        /\ req[r].pc = "done"
        /\ req[r].user \in failedFor
        /\ lastSaved[req[r].user] = [val |-> req[r].mem, age |-> 0, backend |-> "local"]
        /\ req[q].pc = "resolve"
        /\ req[q].src = "local"
        /\ req[q].read = req[r].mem

\* C5: once a durable-store operation has failed, usingRedis is false and
\* stays false, and no getMemory or saveMemory calls the durable store again.
C5_DemotionOneWay ==
    [][ /\ failedFor' # {} => ~usingRedis'
        /\ failedFor # {} =>
              \A r \in Req :
                  req'[r].pc \in {"redis.get", "redis.set"} => req'[r].pc = req[r].pc
      ]_vars

\* after a failure, an update was handled from getMemory to the reply with
\* the local cache alone
C5_Witness ==
    \E r, q \in Req :
        /\ r < q
        /\ req[r].pc = "done"
        /\ req[r].src = "redis"
        /\ lastSaved[req[r].user].backend = "local"
        /\ failedFor = {req[r].user}
        /\ req[q].user # req[r].user
        /\ req[q].pc = "done"
        /\ req[q].src = "local"

\* C6: a getMemory that returns MEMORY_TTL or more after the last
\* saveMemory of its user returns the empty history; a saveMemory stores the
\* whole history with MEMORY_TTL to live; and an entry leaves a store whole.
C6_TimeToLive ==
    [][ /\ \A r \in Req :
              ( /\ GetDone(r)
                /\ lastSaved[req'[r].user].backend # "none"
                /\ lastSaved[req'[r].user].age = MEMORY_TTL )
              => req'[r].read = <<>>
        /\ \A r \in Req :
              SaveDone(r) =>
                  LET u == req'[r].user
                  IN  IF lastSaved'[u].backend = "redis"
                      THEN redisStore'[Key(u)]
                               = [val |-> JSONstringify(req'[r].mem), ttl |-> MEMORY_TTL]
                      ELSE memCache'[Key(u)]
                               = [val |-> req'[r].mem, ttl |-> MEMORY_TTL]
        /\ (\A r \in Req : ~SaveDone(r)) =>
              \A k \in Keys :
                  /\ redisStore'[k].val \in {redisStore[k].val, <<>>}
                  /\ memCache'[k].val \in {memCache[k].val, <<>>}
                  /\ redisStore'[k].ttl <= redisStore[k].ttl
                  /\ memCache'[k].ttl <= memCache[k].ttl
      ]_vars

\* a history was saved, its time-to-live elapsed, and the next getMemory of
\* the user returned the empty history from the store it had been saved to
C6_Witness ==
    \E r, q \in Req :
        /\ r # q
        /\ req[r].user = req[q].user
        /\ req[r].pc = "done"
        /\ lastSaved[req[r].user].val = req[r].mem
        /\ lastSaved[req[r].user].age = MEMORY_TTL
        /\ req[q].pc = "resolve"
        /\ req[q].src = lastSaved[req[r].user].backend
        /\ req[q].read = <<>>

\* the two turns update r adds to the history it read
TurnPair(r) == <<Turn("user", req[r].prompt), Turn("assistant", req[r].answer)>>

\* C7: when a chat request with no concurrent request of the same user ends,
\* the stored history of the user is the history read at the start of the
\* request, then the turn {user, p}, then the turn {assistant, a}, and the
\* reply is the banner-prefixed a.
C7_ChatRecorded ==
    [][\A r \in Req :
          (SaveDone(r) /\ req'[r].overlaps = {}) =>
              /\ Stored(req[r].user)' = req'[r].read \o TurnPair(r)'
              /\ req'[r].reply = withPrefix(req'[r].answer)]_vars

\* what the code does keep: the same, when the store saveMemory wrote to is
\* the store in use once it has returned
ChatRecordedSameStore ==
    [][\A r \in Req :
          ( /\ SaveDone(r)
            /\ req'[r].overlaps = {}
            /\ lastSaved'[req[r].user].backend = InUse' ) =>
              /\ Stored(req[r].user)' = req'[r].read \o TurnPair(r)'
              /\ req'[r].reply = withPrefix(req'[r].answer)]_vars

\* history h holds the turns of the update rq as a pair or not at all, and
\* alternates user and assistant turns
Unmixed(h, rq) ==
    /\ \A i \in 1 .. Len(h) :
           h[i].role = (IF i % 2 = 1 THEN "user" ELSE "assistant")
    /\ Len(h) % 2 = 0
    /\ \A i \in 1 .. Len(h) :
           h[i] = Turn("user", rq.prompt) =>
               h[i + 1] = Turn("assistant", rq.answer)

\* C9: when the later of two interleaved requests of one user ends, the
\* stored history is the value passed to the saveMemory that completed
\* last: the history its request read plus its own pair of turns, where the
\* history read holds the other request's turns as a pair or not at all.
C9_LastWriteWins ==
    [][\A r, q \in Req :
          (SaveDone(r) /\ q \in req'[r].overlaps /\ req'[q].pc = "done") =>
              /\ Stored(req[r].user)' = req'[r].mem
              /\ req'[r].mem = req'[r].read \o TurnPair(r)'
              /\ Unmixed(req'[r].read, req'[q])
              /\ Unmixed(req'[r].mem, req'[q])]_vars

\* what the code does keep: the same, when the saveMemory that completed
\* last wrote to the store in use once it has returned
LastWriteWinsSameStore ==
    [][\A r, q \in Req :
          ( /\ SaveDone(r)
            /\ q \in req'[r].overlaps
            /\ req'[q].pc = "done"
            /\ lastSaved'[req[r].user].backend = InUse' ) =>
              /\ Stored(req[r].user)' = req'[r].mem
              /\ req'[r].mem = req'[r].read \o TurnPair(r)'
              /\ Unmixed(req'[r].read, req'[q])
              /\ Unmixed(req'[r].mem, req'[q])]_vars

\* C10: getMemory(B) returns the history last saved for B within its
\* time-to-live, whatever the requests of other users ran into: here B is
\* any user none of whose own requests had a durable-store failure.
C10_NoInterference ==
    [][\A r \in Req :
          (GetDone(r) /\ req'[r].user \notin failedFor')
          => req'[r].read = LastSavedAlive(req'[r].user)]_vars

\* what the code does keep: no step of a request touches the entry of
\* another user in either store
EntriesApart ==
    [][\A r \in Req : \A u \in Users :
          (req'[r] # req[r] /\ req'[r].user # u /\ redisStore[Key(u)].ttl > 1
           /\ memCache[Key(u)].ttl > 1) =>
              \/ /\ redisStore'[Key(u)] = redisStore[Key(u)]
                 /\ memCache'[Key(u)] = memCache[Key(u)]
              \/ \E q \in Req : q # r /\ req'[q] # req[q]]_vars

(* ------------------------------ adapter inputs ------------------------- *)

\* the transcript update r builds: the history read, then the new user turn,
\* each turn as 'role: content'
TranscriptOf(r) == contextStr(Append(req[r].read, Turn("user", req[r].prompt)))

\* C16: every text-generation adapter invoked in a chat request (HF Space,
\* HF API, Replicate) is given the concatenated transcript.
C16_TranscriptInput ==
    \A r \in Req : Resolved(r) =>
        \A i \in 1 .. Len(CallsOf(r)) :
            CallsOf(r)[i].name \in TextAdapters => req[r].inputs[i] = TranscriptOf(r)

\* what the code does keep: the transcript goes to HF Space and to HF API,
\* the bare prompt to Replicate and to the lookups
TranscriptToHf ==
    \A r \in Req : Resolved(r) =>
        \A i \in 1 .. Len(CallsOf(r)) :
            req[r].inputs[i] =
                IF CallsOf(r)[i].name \in {"callHfSpace", "callHfApi"}
                THEN TranscriptOf(r) ELSE req[r].prompt

\* the HF API call of update r ended in the serialized payload of a response
\* with no recognized text field
GaveRawJson(r, i) ==
    /\ CallsOf(r)[i].name = "callHfApi"
    /\ \E resp \in HfApiResps : CallsOf(r)[i].text = RawJson(resp)

InBranch(rq, m) ==
    /\ rq.parts # <<>>
    /\ toLowerCase(rq.parts[1]) = m
    /\ restOf(rq.parts) # <<>>

\* the handler has returned
Ended(rq) == rq.pc = "done"

\* the reply of lines 451-454
IsGenericError(rep) ==
    /\ rep.shape = "text"
    /\ Len(rep.text) > 2
    /\ rep.text[3] = "Error: "

\* C11: translateUnofficial returns a string, the translation or the input
\* text unchanged, and never throws; a /ai translate request ends in one
\* banner-prefixed text reply carrying that string, never in the generic
\* error reply.
C11_TranslateNeverFails ==
    \A r \in Req : InBranch(req[r], "translate") /\ Ended(req[r]) =>
        LET rq == req[r]
            text == textToTranslate(restOf(rq.parts))
        IN  /\ Len(rq.calls) = 1
            /\ rq.calls[1].name = "translateUnofficial"
            /\ ~rq.calls[1].threw
            /\ rq.calls[1].text # Null
            /\ rq.calls[1].text \in Texts \cup {text}
            /\ rq.inputs = <<text>>
            /\ rq.replies = <<TextReply(withPrefix(rq.calls[1].text))>>
            /\ ~IsGenericError(rq.replies[1])

\* the translation library failed and the input text was echoed
C11_Witness ==
    \E r \in Req :
        /\ InBranch(req[r], "translate")
        /\ Ended(req[r])
        /\ req[r].parts = <<"translate", "am", "hi">>
        /\ req[r].calls[1].text = <<"hi">>
        /\ req[r].replies = <<TextReply(withPrefix(<<"hi">>))>>

\* the eleven media modes of lines 389-390
SupportedModes ==
    {"t2i", "t2v", "i2v", "v2v", "upscale", "act",
     "flux", "fixface", "caption", "burncaption", "recon3d"}

\* a /ai media request with both its arguments: lines 385-387 let it through
MediaRequest(rq) ==
    /\ InBranch(rq, "media")
    /\ rq.parts[2] # ""
    /\ slice(rq.parts, 2) # <<>>

\* sub of line 385
subOf(rq) == toLowerCase(rq.parts[2])

\* C12: a /ai media request whose mode is none of the eleven supported modes
\* gets the fixed reply 'No provider configured for that media mode.' and
\* invokes no adapter, neither callRunway nor callReplicate.
C12_UnsupportedMode ==
    \A r \in Req :
        MediaRequest(req[r]) /\ Ended(req[r]) /\ subOf(req[r]) \notin SupportedModes =>
            /\ req[r].replies = <<TextReply(withPrefix(NoMediaProvider))>>
            /\ req[r].calls = <<>>

\* /ai media bogus hi was answered while both media providers had their keys
C12_Witness ==
    \E r \in Req :
        /\ req[r].parts = <<"media", "bogus", "hi">>
        /\ Ended(req[r])
        /\ {"RUNWAY_API_KEY", "REPLICATE_API_KEY", "REPLICATE_MEDIA_MODEL"} \subseteq env
        /\ req[r].replies = <<TextReply(withPrefix(NoMediaProvider))>>

\* the six model names of HF_MODEL_MAP, lines 208-213
ChatModelKeys == {"llama2", "mistral", "flan_t5", "falcon", "gpt2", "bloom"}

\* the command lacks a required argument: nothing after the mode (help
\* excepted), no prompt after a model key in chat, no mode or no payload in
\* media, no variable or no prompt in replicate
LacksArgument(parts) ==
    /\ parts # <<>>
    /\ LET mode == toLowerCase(parts[1])
       IN  \/ mode # "help" /\ restOf(parts) = <<>>
           \/ mode = "chat" /\ firstToken(parts) \in ChatModelKeys /\ slice(parts, 2) = <<>>
           \/ mode \in {"media", "replicate"}
                  /\ (Len(parts) < 2 \/ parts[2] = "" \/ slice(parts, 2) = <<>>)

\* the same, with the model key as line 264 finds it
LacksArgumentAsParsed(parts) ==
    /\ parts # <<>>
    /\ LET mode == toLowerCase(parts[1])
       IN  \/ mode # "help" /\ restOf(parts) = <<>>
           \/ mode = "chat" /\ promptOf(parts) = <<>>
           \/ mode \in {"media", "replicate"}
                  /\ (Len(parts) < 2 \/ parts[2] = "" \/ slice(parts, 2) = <<>>)

UsageHints == {UsageAi, PleaseInput, PleasePrompt, UsageMedia, UsageReplicate}

\* the request got a usage hint at once, called no adapter, and neither read
\* nor wrote the memory
HintedOnly(rq) ==
    /\ Ended(rq)
    /\ \E h \in UsageHints : rq.replies = <<TextReply(withPrefix(h))>>
    /\ rq.calls = <<>>
    /\ rq.src = "none"
    /\ memCache = [k \in Keys |-> Absent]
    /\ \A u \in Users : lastSaved[u].age = 0

\* C13: a /ai command that lacks a required argument gets a fixed usage
\* hint as a text reply, invokes no adapter, and leaves the memory as it
\* was: no getMemory, no saveMemory.
C13_MissingArgument ==
    \A r \in Req :
        req[r].pc # "idle" /\ LacksArgument(req[r].parts) => HintedOnly(req[r])

\* what the code does keep: the same for the commands in which the handler
\* itself finds the argument missing
MissingArgumentAsParsed ==
    \A r \in Req :
        req[r].pc # "idle" /\ LacksArgumentAsParsed(req[r].parts) => HintedOnly(req[r])

MissingArgumentAsParsed_Witness ==
    \E r \in Req :
        /\ req[r].parts = <<"chat", "mistral">>
        /\ req[r].replies = <<TextReply(withPrefix(PleasePrompt))>>

\* the reply carries the banner of withPrefix in front of its text or caption
Prefixed(rep) ==
    /\ rep.text # Null
    /\ Len(rep.text) >= Len(withPrefix(<<>>))
    /\ SubSeq(rep.text, 1, Len(withPrefix(<<>>))) = withPrefix(<<>>)

\* C14: every reply the handler sends, on every path and of every shape
\* (text, photo, video, document, voice), is prefixed with the banner.
C14_EveryReplyPrefixed ==
    \A r \in Req : \A i \in 1 .. Len(req[r].replies) : Prefixed(req[r].replies[i])

\* what the code does keep: text, photo and video replies carry the banner
TextPhotoVideoPrefixed ==
    \A r \in Req : \A i \in 1 .. Len(req[r].replies) :
        req[r].replies[i].shape \in {"text", "photo", "video"} =>
            Prefixed(req[r].replies[i])

TextPhotoVideoPrefixed_Witness ==
    \E r \in Req :
        /\ Len(req[r].replies) = 1
        /\ req[r].replies[1].shape = "photo"
        /\ Prefixed(req[r].replies[1])

\* the model key and the prompt of the chat request are those the first
\* token calls for: a model name is the key and stays out of the prompt, any
\* other token leaves the key llama2 and belongs to the prompt
ParsedAsNamed(rq) ==
    IF firstToken(rq.parts) \in ChatModelKeys
    THEN rq.modelKey = firstToken(rq.parts) /\ rq.prompt = slice(rq.parts, 2)
    ELSE rq.modelKey = "llama2" /\ rq.prompt = restOf(rq.parts)

\* C15: in /ai chat <t> <prompt>, a first token that is one of llama2,
\* mistral, flan_t5, falcon, gpt2, bloom is the model key and no part of the
\* prompt; with any other first token the key is llama2 and the prompt is
\* the whole remainder. For every configuration of the environment.
C15_ModelKeyParsing ==
    \A r \in Req :
        InBranch(req[r], "chat") /\ req[r].pc # "idle" => ParsedAsNamed(req[r])

\* what the code does keep: the same when the model URLs are configured and
\* the first token is not 'default'
ModelKeyWhenConfigured ==
    \A r \in Req :
        /\ InBranch(req[r], "chat")
        /\ req[r].pc # "idle"
        /\ HF_MODEL_MAP("llama2")
        /\ firstToken(req[r].parts) # "default"
        => ParsedAsNamed(req[r])

ModelKeyWhenConfigured_Witness ==
    \E r \in Req :
        /\ req[r].parts = <<"chat", "Mistral", "hi">>
        /\ req[r].modelKey = "mistral"
        /\ req[r].prompt = <<"hi">>
        /\ Ended(req[r])

\* a call that gave its output: it returned, and with something
GaveOutput(c) == ~c.threw /\ Truthy(c.text)

\* C18: in a /ai tts request ElevenLabs is tried first when configured; the
\* Replicate speech model is invoked only when ElevenLabs is unconfigured or
\* failed, never after it succeeded; when neither gives audio the reply is
\* the text 'No TTS provider configured.', not the generic error reply.
C18_TtsOrder ==
    \A r \in Req : InBranch(req[r], "tts") /\ Ended(req[r]) =>
        LET c == req[r].calls
            n == Len(c)
        IN  /\ "ELEVENLABS" \in env => n >= 1 /\ c[1].name = "callElevenLabsTTS"
            /\ \A i \in 1 .. n :
                   /\ c[i].name \in {"callElevenLabsTTS", "callReplicate"}
                   /\ c[i].name = "callElevenLabsTTS" => i = 1 /\ "ELEVENLABS" \in env
                   /\ c[i].name = "callReplicate" =>
                          /\ TtsReplicateConfigured
                          /\ \A j \in 1 .. i - 1 :
                                 c[j].name = "callElevenLabsTTS" /\ ~GaveOutput(c[j])
            /\ TtsReplicateConfigured /\ ("ELEVENLABS" \notin env \/ ~GaveOutput(c[1]))
                   => n >= 1 /\ c[n].name = "callReplicate"
            /\ Len(req[r].replies) = 1
            /\ IF \E i \in 1 .. n : GaveOutput(c[i])
               THEN /\ GaveOutput(c[n])
                    /\ req[r].replies[1] = VoiceReply(c[n].text)
               ELSE /\ req[r].replies[1] = TextReply(withPrefix(NoTts))
                    /\ ~IsGenericError(req[r].replies[1])

\* ElevenLabs failed, the Replicate speech model gave the audio
C18_Witness ==
    \E r \in Req :
        /\ InBranch(req[r], "tts")
        /\ Ended(req[r])
        /\ Len(req[r].calls) = 2
        /\ req[r].calls[1].name = "callElevenLabsTTS"
        /\ req[r].calls[1].threw
        /\ req[r].calls[2].name = "callReplicate"
        /\ req[r].replies = <<VoiceReply(X)>>

\* both providers configured, both failed: the fixed text
C18_WitnessNone ==
    \E r \in Req :
        /\ InBranch(req[r], "tts")
        /\ Len(req[r].calls) = 2
        /\ req[r].calls[2].threw
        /\ req[r].replies = <<TextReply(withPrefix(NoTts))>>

\* the provider of a media mode
ProviderOf(sub) == IF sub \in runwayModes THEN "callRunway" ELSE "callReplicate"

\* the shape of the reply of a media mode that succeeded
ShapeOf(sub) ==
    CASE sub \in {"t2i", "flux", "fixface"} -> "photo"
      [] sub \in {"t2v", "i2v", "v2v", "upscale", "act", "burncaption"} -> "video"
      [] sub = "caption" -> "text"
      [] sub = "recon3d" -> "document"

\* C19: the reply of a successful /ai media request has the shape its mode
\* and provider call for (t2i photo, t2v i2v v2v upscale act video, by
\* Runway; flux fixface photo, caption text, recon3d document, burncaption
\* video, by Replicate), and a mode is only ever served by its own provider.
C19_MediaShape ==
    \A r \in Req : MediaRequest(req[r]) /\ Ended(req[r]) =>
        LET c == req[r].calls
            sub == subOf(req[r])
        IN  /\ Len(c) <= 1
            /\ Len(req[r].replies) = 1
            /\ \A i \in 1 .. Len(c) :
                   /\ sub \in SupportedModes
                   /\ c[i].name = ProviderOf(sub)
                   /\ GaveOutput(c[i]) =>
                          /\ req[r].replies[1].shape = ShapeOf(sub)
                          /\ IF ShapeOf(sub) = "text"
                             THEN req[r].replies[1] = TextReply(withPrefix(c[i].text))
                             ELSE req[r].replies[1].media = c[i].text
            /\ req[r].replies[1].shape # "text" => Len(c) = 1 /\ GaveOutput(c[1])

\* /ai media recon3d hi was served by Replicate with a document
C19_Witness ==
    \E r \in Req :
        /\ req[r].parts = <<"media", "recon3d", "hi">>
        /\ Ended(req[r])
        /\ "RUNWAY_API_KEY" \in env
        /\ Len(req[r].calls) = 1
        /\ req[r].calls[1].name = "callReplicate"
        /\ req[r].replies = <<DocumentReply(X)>>

\* /ai media T2I hi was served by Runway with a photo
C19_WitnessRunway ==
    \E r \in Req :
        /\ req[r].parts = <<"media", "T2I", "hi">>
        /\ "REPLICATE_API_KEY" \in env
        /\ Len(req[r].calls) = 1
        /\ req[r].calls[1].name = "callRunway"
        /\ req[r].replies = <<PhotoReply(X, withPrefix(<<"hi">>))>>

\* C20: every /ai command ends with exactly one reply, whatever the
\* providers and the durable store do: the handler never ends without a
\* reply, never sends two, and no error of an adapter or of the store
\* escapes it.
C20_ExactlyOneReply ==
    /\ [](\A r \in Req :
              /\ Len(req[r].replies) <= 1
              /\ Ended(req[r]) <=> Len(req[r].replies) = 1
              /\ req[r].pc # "escaped")
    /\ \A r \in Req : (req[r].pc # "idle") ~> Ended(req[r])

\* the history in the durable store was no array, mem.push threw, and the
\* catch of the handler sent the one reply
C20_Witness ==
    \E r \in Req :
        /\ InBranch(req[r], "chat")
        /\ Ended(req[r])
        /\ req[r].calls = <<>>
        /\ Len(req[r].replies) = 1
        /\ IsGenericError(req[r].replies[1])

(* ------------------------------ stored histories ----------------------- *)

\* the history an entry of the durable store holds
HistoryOf(entry) == IF entry.val = <<>> THEN <<>> ELSE JSONparse(entry.val)

\* the history has even length and its roles go user, assistant, user, ...
Alternates(h) ==
    /\ Len(h) % 2 = 0
    /\ \A i \in 1 .. Len(h) :
           h[i].role = IF i % 2 = 1 THEN "user" ELSE "assistant"

\* the request is a /ai chat
IsChat(rq) == rq.parts # <<>> /\ toLowerCase(rq.parts[1]) = "chat"

\* the Memory Store: both stores and the switch between them
MemoryStore == <<redisStore, memCache, usingRedis>>

\* a step in which nothing but time acted on the stores
Expiry ==
    /\ req' = req
    /\ redisStore' = Expire(redisStore)
    /\ memCache' = Expire(memCache)
    /\ usingRedis' = usingRedis

\* a step of one chat request, and of no other request's handler
ChatStep ==
    \E r \in Req :
        /\ IsChat(req'[r])
        /\ req'[r].pc # req[r].pc
        /\ \A q \in Req \ {r} : req'[q].pc = req[q].pc

\* C21: from empty stores, in every reachable state every stored history
\* has even length and alternates user, assistant, ..., starting with user;
\* only chat requests change the Memory Store: a request of any other mode
\* leaves it as it was (and so does nothing else but the passing of time).
C21_HistoriesAlternate ==
    /\ [](\A k \in Keys :
              /\ Alternates(HistoryOf(redisStore[k]))
              /\ Alternates(memCache[k].val))
    /\ [][/\ MemoryStore' # MemoryStore => Expiry \/ ChatStep
          /\ \A r \in Req :
                 req'[r].pc # req[r].pc /\ ~IsChat(req'[r])
                     => MemoryStore' = MemoryStore]_vars

\* after a demotion a user's chat is held in the local cache, two turns,
\* and a tts request of the same user has ended
C21_Witness ==
    \E r, q \in Req :
        /\ IsChat(req[r])
        /\ Ended(req[r])
        /\ req[q].parts = <<"tts", "hi">>
        /\ Ended(req[q])
        /\ req[q].user = req[r].user
        /\ redis = "client"
        /\ ~usingRedis
        /\ Len(MemCacheGet(Key(req[r].user))) = 2
        /\ Alternates(MemCacheGet(Key(req[r].user)))

\* a second chat of the same user extended the stored history to four turns
C21_WitnessFour ==
    \E u \in Users :
        /\ Len(HistoryOf(redisStore[Key(u)])) = 4
        /\ Alternates(HistoryOf(redisStore[Key(u)]))

====
